---------------------------- MODULE Spec2Model ----------------------------
(***************************************************************************)
(* A model of mlpack's asynchronous one-step SARSA worker                  *)
(* (one_step_sarsa_worker.hpp).  Workers 1..NumWorkers repeatedly call     *)
(* Step on the same shared learning network, target network, step counter  *)
(* and policy.  A worker is constructed from its parameters (worker 1 is   *)
(* then either the deterministic (evaluation) worker or a stochastic       *)
(* (training) worker, the others are stochastic) or as a copy of, or by    *)
(* taking over, a worker that is between two calls.                        *)
(*                                                                         *)
(* A Step call is cut into atomic steps at its accesses to shared memory:  *)
(* the code between two such accesses touches only the worker's own        *)
(* fields and is folded into the neighbouring step.  The unnamed           *)
(* "#pragma omp critical" regions are one process-wide lock (critical).    *)
(*                                                                         *)
(* Spec is the program.  SpecRecorded is the same program with four more   *)
(* history variables written (trajectory, flushLog, handed, synced), which *)
(* record what each deterministic call produced, what a flush read and     *)
(* handed over and for which counter values a target sync ran; under Spec  *)
(* they keep their initial values.                                         *)
(*                                                                         *)
(* Real-valued quantities (rewards, action values, gradients, parameters)  *)
(* are integers here.  The network, the environment, the policy and the    *)
(* optimizer are external collaborators; they are given small concrete     *)
(* stand-ins with the interface the worker uses.                           *)
(***************************************************************************)
EXTENDS Integers, Sequences, FiniteSets

\* ------------------------------------------------------------------ bounds
NumWorkers == 2
MaxTotalSteps == 3
MaxDetSteps == 3
NumActions == 2
NetMod == 2

\* ------------------------------------------------------- TrainingConfig
\* The hyper-parameters of the runs that are explored in full: episodes
\* that outlast the buffer, and episodes that end with the call that fills it.
ChosenConfig ==
  [StepLimit |-> 3, UpdateInterval |-> 2, TargetNetworkSyncInterval |-> 2]

ShortConfig ==
  [StepLimit |-> 2, UpdateInterval |-> 2, TargetNetworkSyncInterval |-> 2]

Configs == {ChosenConfig, ShortConfig}

\* The configurations a worker pool may be constructed with: each of the
\* three size parameters negative, zero or as in one of the above.
ConfigSpace ==
  [StepLimit : {-1, 0} \cup {c.StepLimit : c \in Configs},
   UpdateInterval : {-1, 0} \cup {c.UpdateInterval : c \in Configs},
   TargetNetworkSyncInterval :
     {-1, 0} \cup {c.TargetNetworkSyncInterval : c \in Configs}]

Discount == 2
GradientLimit == 3
StepSize == 1

Workers == 1 .. NumWorkers
Actions == 0 .. (NumActions - 1)
\* ActionType::size, the "no action yet" sentinel.
ActionSize == NumActions
\* The member action before anything was assigned to it: the constructor
\* (lines 65-71) does not initialise it (line 276) and the base constructor
\* cannot reach it, so it holds whatever the memory held.  What it holds is
\* decided where it is first read (line 144).
Uninitialised == NumActions + 1
\* The values of the action's type that are neither an action nor the
\* sentinel; the one value stands for all of them.
OutOfRange == {1515870810}
InitialState == 0
TerminalState == 1
States == {InitialState, TerminalState}
NoWorker == 0

VARIABLES
  config,         \* WorkerBase::config, the TrainingConfig given at construction
  deterministic,  \* WorkerBase::deterministic, the constructor's flag
  pc,             \* each worker's position inside Step ("idle": between calls,
                  \* "new": not constructed yet, "moved": taken over by
                  \* another worker, "thrown": its call ended in a fault)
  state,          \* WorkerBase::state
  action,         \* OneStepSarsaWorker::action
  episodeReturn,  \* WorkerBase::episodeReturn
  steps,          \* WorkerBase::steps
  network,        \* WorkerBase::network, the local clone (its parameters)
  pending,        \* WorkerBase::pending, the transition buffer
  pendingIndex,   \* WorkerBase::pendingIndex
  nextState, nextAction, terminal,  \* locals of Step
  i,              \* the flush loop's index
  totalGradients, \* the flush's accumulator
  loaded,         \* the parameters the optimizer loaded, not yet stored back
  learningNetwork, targetNetwork, totalSteps, \* shared
  anneals,        \* the policy's schedule: number of Anneal() applied
  critical,       \* holder of the omp critical lock, or NoWorker
  totalReward,    \* the out parameter of each worker's running Step call
  returned,       \* what the worker's last Step returned
  stochCalls,     \* history: number of stochastic-mode Step calls made
  detCalls,       \* history: number of deterministic-mode Step calls made
  rewards,        \* history: rewards sampled since the last Reset
  trajectory,     \* recorded: what each deterministic-mode call used and produced
  flushDue,       \* history: the running call was terminal or filled the buffer
  updates,        \* history: optimizer updates the running call has applied
  copied,         \* history: what the last call copied into the local network
  unread,         \* history: slots appended to and not yet read by a flush
  flushLog,       \* recorded: what each iteration of the running flush did
  handed,         \* recorded: accumulator the running flush handed over
  synced          \* recorded: counter values for which a target sync ran

locals == <<nextState, nextAction, terminal, i, totalGradients, loaded>>
shared == <<learningNetwork, targetNetwork, totalSteps, anneals, critical>>
history == <<stochCalls, detCalls, rewards, trajectory, flushDue, updates, copied,
            unread,
            flushLog, handed, synced>>
vars == <<config, deterministic, pc, state, action, episodeReturn, steps, network, pending,
          pendingIndex, locals, shared, totalReward, returned, history>>

\* config.StepLimit(), config.UpdateInterval(),
\* config.TargetNetworkSyncInterval().
StepLimit == config.StepLimit
UpdateInterval == config.UpdateInterval
TargetNetworkSyncInterval == config.TargetNetworkSyncInterval

\* ------------------------------------------------------- pure operators
RECURSIVE SumSeq(_)
SumSeq(s) == IF s = <<>> THEN 0 ELSE Head(s) + SumSeq(Tail(s))

Min(a, b) == IF a < b THEN a ELSE b
Max(a, b) == IF a > b THEN a ELSE b

\* NetworkType::Predict / Forward: the action values of a state.
Predict(params, s) == [a \in Actions |-> 1 + ((params + s + a + 1) % 2)]

\* NetworkType::Backward: the gradient of the squared error at the entry
\* that was overwritten with the training target (line 214).  With an index
\* that is no action the write misses the action values, which then equal
\* the network's own output.
Backward(params, s, a, target) ==
  IF a \in Actions THEN Predict(params, s)[a] - target ELSE 0

\* The optimizer's in-place update of the parameters.
UpdaterUpdate(params, stepSize, gradient) ==
  (params - stepSize * gradient) % NetMod

\* PolicyType::Sample: the greedy action (first maximum) when deterministic,
\* any action otherwise (exploration).
Sample(actionValue, det) ==
  IF det
  THEN {CHOOSE a \in Actions :
          /\ \A b \in Actions : actionValue[b] <= actionValue[a]
          /\ \A b \in Actions : actionValue[b] = actionValue[a] => a <= b}
  ELSE Actions

\* EnvironmentType::Sample: the reward and the next state of playing action
\* a in state s.  The last action ends the episode, the others stay.
EnvReward(s, a) == a + 1
EnvNextState(s, a) == IF a = NumActions - 1 THEN TerminalState ELSE InitialState

\* EnvironmentType::IsTerminal.
IsTerminal(s) == s = TerminalState

\* The clamp of one accumulated gradient (lines 225-228).
Clamp(gradient) == Min(Max(gradient, -GradientLimit), GradientLimit)

ZeroTransition ==
  [state |-> 0, action |-> 0, reward |-> 0, nextState |-> 0, nextAction |-> 0]

\* pending.size(): the buffer's capacity.
PendingSize == UpdateInterval

TypeOK ==
  /\ config \in ConfigSpace
  /\ pc \in [Workers -> {"new", "rejected", "moved", "thrown",
                         "idle", "reset", "detSync", "flushAcquire",
                         "flushRead", "update", "updateStore", "localSync", "checkSync",
                         "syncAcquire", "syncWrite", "anneal"}]
  /\ action \in [Workers -> Actions \cup {ActionSize, Uninitialised}
                              \cup OutOfRange]
  /\ pendingIndex \in [Workers -> 0 .. Max(UpdateInterval, 0)]
  /\ critical \in Workers \cup {NoWorker}

\* Between calls, and inside a call.
Idle(w) == pc[w] = "idle"
InStep(w) == pc[w] \notin {"idle", "new", "rejected", "moved", "thrown"}

\* The fields of freshly constructed workers and the shared objects the
\* orchestrator hands to Step, before any call.
InitFields ==
  /\ deterministic \in {d \in [Workers -> BOOLEAN] : \A w \in Workers : d[w] => w = 1}
  /\ state = [w \in Workers |-> InitialState]
  /\ action = [w \in Workers |-> Uninitialised]
  /\ episodeReturn = [w \in Workers |-> 0]
  /\ steps = [w \in Workers |-> 0]
  /\ learningNetwork = 0
  /\ targetNetwork = learningNetwork
  /\ network = [w \in Workers |-> learningNetwork]
  /\ pendingIndex = [w \in Workers |-> 0]
  /\ nextState = [w \in Workers |-> InitialState]
  /\ nextAction = [w \in Workers |-> 0]
  /\ terminal = [w \in Workers |-> FALSE]
  /\ i = [w \in Workers |-> 0]
  /\ totalGradients = [w \in Workers |-> 0]
  /\ loaded = [w \in Workers |-> 0]
  /\ totalSteps = 0
  /\ anneals = 0
  /\ critical = NoWorker
  /\ totalReward = [w \in Workers |-> 0]
  /\ returned = [w \in Workers |-> "none"]
  /\ stochCalls = 0
  /\ detCalls = 0
  /\ rewards = [w \in Workers |-> <<>>]
  /\ trajectory = [w \in Workers |-> <<>>]
  /\ flushDue = [w \in Workers |-> FALSE]
  /\ updates = [w \in Workers |-> 0]
  /\ copied = [w \in Workers |-> <<>>]
  /\ unread = [w \in Workers |-> {}]
  /\ flushLog = [w \in Workers |-> <<>>]
  /\ handed = [w \in Workers |-> 0]
  /\ synced = {}

\* The buffer of a worker constructed from its parameters.
EmptyBuffer == [k \in 0 .. (PendingSize - 1) |-> ZeroTransition]

\* The pools the orchestrator may construct from parameters: worker 1 and
\* any of the others; the rest are left to be constructed from a worker.
Pools == {S \in SUBSET Workers : 1 \in S}

\* Some workers constructed with one of the chosen configurations.
Init ==
  /\ config \in Configs
  /\ \E S \in Pools :
       /\ pc = [w \in Workers |-> IF w \in S THEN "idle" ELSE "new"]
       /\ pending = [w \in Workers |-> IF w \in S THEN EmptyBuffer ELSE <<>>]
  /\ InitFields

\* Before construction: any configuration, no worker and no buffer yet.
InitNew ==
  /\ config \in ConfigSpace
  /\ pc = [w \in Workers |-> "new"]
  /\ pending = [w \in Workers |-> <<>>]
  /\ InitFields

\* ------------------------------------------------------------ Step: entry
\* The action a Step call plays: sampled from the local network's estimate
\* when the current action is the sentinel (lines 144-150).  An
\* uninitialised action compares equal to the sentinel or is any other
\* value of its type, in range or not, which is then played as it is.
FirstAction(w) ==
  IF action[w] = Uninitialised
  THEN Sample(Predict(network[w], state[w]), deterministic[w])
         \cup Actions \cup OutOfRange
  ELSE IF action[w] = ActionSize
       THEN Sample(Predict(network[w], state[w]), deterministic[w])
       ELSE {action[w]}

\* terminal = terminal || steps >= StepLimit, with steps already incremented
\* (lines 153, 159, 161).
Terminal(w, ns) == IsTerminal(ns) \/ steps[w] + 1 >= StepLimit

\* Mutant: the return assigned instead of accumulated.
InteractOverwrite(w, a, ns) ==
  /\ ns = EnvNextState(state[w], a)
  /\ a \in FirstAction(w)
  /\ episodeReturn' = [episodeReturn EXCEPT ![w] = EnvReward(state[w], a)]
  /\ steps' = [steps EXCEPT ![w] = @ + 1]

\* Lines 144-161: play action a, receive the reward and the next state ns.
Interact(w, a, ns) ==
  /\ ns = EnvNextState(state[w], a)
  /\ a \in FirstAction(w)
  /\ episodeReturn' = [episodeReturn EXCEPT ![w] = @ + EnvReward(state[w], a)]
  /\ steps' = [steps EXCEPT ![w] = @ + 1]

\* WorkerBase::Reset (called at line 271).
BaseReset(w) ==
  /\ steps' = [steps EXCEPT ![w] = 0]
  /\ episodeReturn' = [episodeReturn EXCEPT ![w] = 0]
  /\ pendingIndex' = [pendingIndex EXCEPT ![w] = 0]
  /\ state' = [state EXCEPT ![w] = InitialState]

\* Mutant: Reset without the override's own line (the action is kept).
ResetKeepAction(w) ==
  /\ BaseReset(w)
  /\ UNCHANGED action

\* OneStepSarsaWorker::Reset (lines 269-273).
Reset(w) ==
  /\ BaseReset(w)
  /\ action' = [action EXCEPT ![w] = ActionSize]

\* ------------------------------------------------- deterministic branch
\* Lines 164-166: the episode ended; report its return, then go to Reset.
DetTerminal(w, a) ==
  /\ totalReward' = [totalReward EXCEPT ![w] = episodeReturn'[w]]
  /\ action' = [action EXCEPT ![w] = a]
  /\ pc' = [pc EXCEPT ![w] = "reset"]
  /\ returned' = [returned EXCEPT ![w] = "none"]
  /\ UNCHANGED <<state, network, pending, pendingIndex, locals, shared>>

\* Mutant: the counter incremented before the deterministic branch.
DetAdvanceCounting(w, ns, na) ==
  /\ state' = [state EXCEPT ![w] = ns]
  /\ action' = [action EXCEPT ![w] = na]
  /\ returned' = [returned EXCEPT ![w] = "false"]
  /\ totalSteps' = totalSteps + 1
  /\ UNCHANGED <<pc, totalReward, network, pending, pendingIndex, locals,
                 learningNetwork, targetNetwork, anneals, critical>>

\* Lines 172-174: advance to the next state and action and return false.
DetAdvance(w, ns, na) ==
  /\ state' = [state EXCEPT ![w] = ns]
  /\ action' = [action EXCEPT ![w] = na]
  /\ returned' = [returned EXCEPT ![w] = "false"]
  /\ UNCHANGED <<pc, totalReward, network, pending, pendingIndex, locals,
                 shared>>

\* A whole deterministic-mode call up to its return or its Reset
\* (lines 144-175).
DetStep(w, record) ==
  /\ deterministic[w]
  /\ pc[w] = "idle"
  /\ detCalls < MaxDetSteps
  /\ \E a \in Actions \cup OutOfRange, ns \in States :
       \E na \in Sample(Predict(network[w], ns), deterministic[w]) :
         /\ Interact(w, a, ns)
         /\ rewards' = [rewards EXCEPT ![w] = Append(@, EnvReward(state[w], a))]
         /\ IF Terminal(w, ns)
            THEN DetTerminal(w, a)
            ELSE DetAdvance(w, ns, na)
         /\ trajectory' = IF record
                          THEN [trajectory EXCEPT ![w] = Append(@,
                                  [network |-> network[w],
                                   state |-> state[w],
                                   action |-> a,
                                   reward |-> EnvReward(state[w], a),
                                   terminated |-> Terminal(w, ns),
                                   totalReward |-> totalReward'[w]])]
                          ELSE trajectory
  /\ detCalls' = detCalls + 1
  /\ copied' = [copied EXCEPT ![w] = <<>>]
  /\ UNCHANGED <<config, deterministic, stochCalls, flushDue, updates, unread,
                 flushLog, handed, synced>>

\* Line 167 (deterministic) and line 257 (stochastic): Reset(), and in
\* stochastic mode the return of line 258.
ResetStep(w) ==
  /\ pc[w] = "reset"
  /\ Reset(w)
  /\ pc' = [pc EXCEPT ![w] = IF deterministic[w] THEN "detSync" ELSE "idle"]
  /\ returned' = [returned EXCEPT ![w] = IF deterministic[w] THEN @ ELSE "true"]
  /\ totalReward' = [totalReward EXCEPT ![w] = IF deterministic[w] THEN @ ELSE 0]
  /\ rewards' = [rewards EXCEPT ![w] = <<>>]
  /\ nextState' = [nextState EXCEPT ![w] = InitialState]
  /\ nextAction' = [nextAction EXCEPT ![w] = 0]
  /\ terminal' = [terminal EXCEPT ![w] = FALSE]
  /\ flushDue' = [flushDue EXCEPT ![w] = FALSE]
  /\ updates' = [updates EXCEPT ![w] = 0]
  /\ UNCHANGED <<config, deterministic, network, pending, i, totalGradients,
                 loaded, shared, copied, unread, stochCalls, detCalls, trajectory, flushLog,
                 handed, synced>>

\* Mutant: the copy of line 169 in the other direction.
DetSyncReversed(w) ==
  /\ pc[w] = "detSync"
  /\ learningNetwork' = network[w]
  /\ pc' = [pc EXCEPT ![w] = "idle"]
  /\ returned' = [returned EXCEPT ![w] = "true"]
  /\ totalReward' = [totalReward EXCEPT ![w] = 0]
  /\ UNCHANGED <<config, deterministic, state, action, episodeReturn, steps,
                 network, pending, pendingIndex, locals, targetNetwork,
                 totalSteps, anneals, critical, history>>

\* Lines 168-170: sync with the latest learning network and return true.
DetSync(w) ==
  /\ pc[w] = "detSync"
  /\ network' = [network EXCEPT ![w] = learningNetwork]
  /\ pc' = [pc EXCEPT ![w] = "idle"]
  /\ returned' = [returned EXCEPT ![w] = "true"]
  /\ totalReward' = [totalReward EXCEPT ![w] = 0]
  /\ copied' = [copied EXCEPT ![w] = <<learningNetwork>>]
  /\ UNCHANGED <<config, deterministic, state, action, episodeReturn, steps, pending,
                 pendingIndex, locals, shared, stochCalls, detCalls, rewards,
                 trajectory, flushDue, updates, unread, flushLog, handed,
                 synced>>

\* --------------------------------------------------- stochastic branch
\* Mutant: the buffer flushed one transition too late.
FlushDueLate(term, idx) == term \/ idx > UpdateInterval

\* The condition of line 189, with pendingIndex already incremented.
FlushDue(term, idx) == term \/ idx >= UpdateInterval

\* Mutant: a plain increment, lost when another worker is inside Step.
LostIncrement(v) ==
  IF \E w \in Workers : pc[w] # "idle" THEN v ELSE v + 1

\* #pragma omp atomic totalSteps++ (lines 177-178).
AtomicIncrement(v) == v + 1

\* A stochastic-mode call up to its first access to the target network or
\* its read of the step counter (lines 144-161, 177-193).
StochStep(w) ==
  /\ ~deterministic[w]
  /\ pc[w] = "idle"
  /\ totalSteps < MaxTotalSteps
  /\ \E a \in Actions \cup OutOfRange, ns \in States :
       \E na \in Sample(Predict(network[w], ns), deterministic[w]) :
         /\ Interact(w, a, ns)
         /\ rewards' = [rewards EXCEPT ![w] = Append(@, EnvReward(state[w], a))]
         /\ action' = [action EXCEPT ![w] = a]
         /\ nextState' = [nextState EXCEPT ![w] = ns]
         /\ nextAction' = [nextAction EXCEPT ![w] = na]
         /\ terminal' = [terminal EXCEPT ![w] = Terminal(w, ns)]
         /\ pending' = [pending EXCEPT ![w][pendingIndex[w]] =
                          [state |-> state[w], action |-> a,
                           reward |-> EnvReward(state[w], a),
                           nextState |-> ns, nextAction |-> na]]
         /\ pendingIndex' = [pendingIndex EXCEPT ![w] = @ + 1]
         /\ unread' = [unread EXCEPT ![w] = @ \cup {pendingIndex[w]}]
         /\ flushDue' = [flushDue EXCEPT ![w] =
                           Terminal(w, ns) \/ pendingIndex[w] + 1 = UpdateInterval]
         /\ IF FlushDue(Terminal(w, ns), pendingIndex[w] + 1)
            THEN pc' = [pc EXCEPT ![w] = "flushAcquire"]
            ELSE pc' = [pc EXCEPT ![w] = "checkSync"]
  /\ totalSteps' = AtomicIncrement(totalSteps)
  /\ stochCalls' = stochCalls + 1
  /\ returned' = [returned EXCEPT ![w] = "none"]
  /\ totalReward' = [totalReward EXCEPT ![w] = 0]
  /\ updates' = [updates EXCEPT ![w] = 0]
  /\ copied' = [copied EXCEPT ![w] = <<>>]
  /\ UNCHANGED <<config, deterministic, state, network, i, totalGradients, loaded,
                 learningNetwork, targetNetwork, anneals, critical, detCalls,
                 trajectory, flushLog, handed, synced>>

\* Mutant: a lock of the worker's own, which never waits for another worker.
EnterOwnRegion(w) == critical' = w

\* Entry of an unnamed "#pragma omp critical" region: one lock for all
\* such regions of the process.
EnterCritical(w) ==
  /\ critical = NoWorker
  /\ critical' = w

\* The end of a critical region (lines 204, 250).
LeaveCritical(w) == critical' = NoWorker

\* Line 200: wait for the critical region around the target Predict.
FlushAcquire(w) ==
  /\ pc[w] = "flushAcquire"
  /\ EnterCritical(w)
  /\ pc' = [pc EXCEPT ![w] = "flushRead"]
  /\ UNCHANGED <<config, deterministic, state, action, episodeReturn, steps, network,
                 pending, pendingIndex, locals, learningNetwork,
                 targetNetwork, totalSteps, anneals, totalReward, returned,
                 history>>

\* Mutant: a flush loop that stops one slot short.
FlushBoundShort(w) == PendingSize - 1

\* The number of slots the flush loop visits (line 194).
FlushBound(w) == PendingSize

\* Lines 205-207: the bootstrap value of the transition in slot idx.
Bootstrap(w, idx, actionValue, transition) ==
  IF ~(terminal[w] /\ idx = PendingSize - 1)
  THEN actionValue[transition.nextAction]
  ELSE 0

\* Lines 208-209.
TargetActionValue(transition, bootstrap) ==
  transition.reward + Discount * bootstrap

\* Lines 196-222: one iteration of the flush loop: the Predict on the
\* target network inside the critical region, then (outside it) the
\* training target, the gradient and its accumulation.
FlushRead(w, record) ==
  /\ pc[w] = "flushRead"
  /\ LET transition == pending[w][i[w]]
         actionValue == Predict(targetNetwork, transition.nextState)
         bootstrap == Bootstrap(w, i[w], actionValue, transition)
         targetActionValue == TargetActionValue(transition, bootstrap)
         gradients == Backward(network[w], transition.state,
                               transition.action, targetActionValue)
     IN /\ totalGradients' = [totalGradients EXCEPT ![w] = @ + gradients]
        /\ flushLog' = IF record
                       THEN [flushLog EXCEPT ![w] = Append(@,
                               [slot |-> i[w],
                                value |-> actionValue[transition.nextAction],
                                bootstrap |-> bootstrap,
                                reward |-> transition.reward,
                                target |-> targetActionValue,
                                gradient |-> gradients])]
                       ELSE flushLog
  /\ unread' = [unread EXCEPT ![w] = @ \ {i[w]}]
  /\ LeaveCritical(w)
  /\ i' = [i EXCEPT ![w] = @ + 1]
  /\ pc' = [pc EXCEPT ![w] = IF i[w] + 1 < FlushBound(w)
                             THEN "flushAcquire" ELSE "update"]
  /\ UNCHANGED <<config, deterministic, state, action, episodeReturn, steps, network,
                 pending, pendingIndex, nextState, nextAction, terminal,
                 loaded, learningNetwork, targetNetwork, totalSteps, anneals,
                 totalReward, returned, stochCalls, detCalls, rewards,
                 trajectory, flushDue, updates, copied, handed, synced>>

\* Line 214 with a buffered action that is no action: the index is outside
\* the action values, and where the access is checked or the address is
\* not writable the call ends there, after the critical region of the
\* iteration and without returning.
FlushFault(w) ==
  /\ pc[w] = "flushRead"
  /\ pending[w][i[w]].action \notin Actions
  /\ LeaveCritical(w)
  /\ pc' = [pc EXCEPT ![w] = "thrown"]
  /\ UNCHANGED <<config, deterministic, state, action, episodeReturn, steps,
                 network, pending, pendingIndex, locals, learningNetwork,
                 targetNetwork, totalSteps, anneals, totalReward, returned,
                 history>>

\* Lines 224-237: clamp the accumulator and hand it to the optimizer.  The
\* optimizer's in-place update of the shared parameters is not synchronized:
\* it loads them here and stores them back in UpdateStore, and what another
\* worker stores in between is overwritten.
Update(w, record) ==
  /\ pc[w] = "update"
  /\ LET clamped == Clamp(totalGradients[w])
     IN /\ totalGradients' = [totalGradients EXCEPT ![w] = clamped]
        /\ handed' = IF record THEN [handed EXCEPT ![w] = clamped] ELSE handed
  /\ loaded' = [loaded EXCEPT ![w] = learningNetwork]
  /\ pc' = [pc EXCEPT ![w] = "updateStore"]
  /\ UNCHANGED <<config, deterministic, state, action, episodeReturn, steps, network,
                 pending, pendingIndex, nextState, nextAction, terminal, i,
                 shared, totalReward, returned, stochCalls, detCalls, rewards,
                 trajectory, flushDue, updates, copied, unread, flushLog,
                 synced>>

\* Lines 231-237, the store of the updated parameters.
UpdateStore(w) ==
  /\ pc[w] = "updateStore"
  /\ learningNetwork' = UpdaterUpdate(loaded[w], StepSize, totalGradients[w])
  /\ loaded' = [loaded EXCEPT ![w] = 0]
  /\ pc' = [pc EXCEPT ![w] = "localSync"]
  /\ updates' = [updates EXCEPT ![w] = @ + 1]
  /\ UNCHANGED <<config, deterministic, state, action, episodeReturn, steps, network,
                 pending, pendingIndex, nextState, nextAction, terminal, i,
                 totalGradients, targetNetwork, totalSteps, anneals, critical,
                 totalReward, returned, stochCalls, detCalls, rewards,
                 trajectory, flushDue, copied, unread, flushLog, handed,
                 synced>>

\* Mutant: the flush without the copy of line 240.
LocalSyncNoCopy(w) ==
  /\ pc[w] = "localSync"
  /\ UNCHANGED <<network, copied>>
  /\ pendingIndex' = [pendingIndex EXCEPT ![w] = 0]
  /\ i' = [i EXCEPT ![w] = 0]
  /\ totalGradients' = [totalGradients EXCEPT ![w] = 0]
  /\ flushLog' = [flushLog EXCEPT ![w] = <<>>]
  /\ handed' = [handed EXCEPT ![w] = 0]
  /\ pc' = [pc EXCEPT ![w] = "checkSync"]
  /\ UNCHANGED <<config, deterministic, state, action, episodeReturn, steps, pending,
                 nextState, nextAction, terminal, loaded, shared, totalReward,
                 returned, stochCalls, detCalls, rewards, trajectory, flushDue,
                 updates, unread, synced>>

\* Lines 239-242: copy the shared learning network into the local one and
\* empty the buffer.
LocalSync(w) ==
  /\ pc[w] = "localSync"
  /\ network' = [network EXCEPT ![w] = learningNetwork]
  /\ copied' = [copied EXCEPT ![w] = <<learningNetwork>>]
  /\ pendingIndex' = [pendingIndex EXCEPT ![w] = 0]
  /\ i' = [i EXCEPT ![w] = 0]
  /\ totalGradients' = [totalGradients EXCEPT ![w] = 0]
  /\ flushLog' = [flushLog EXCEPT ![w] = <<>>]
  /\ handed' = [handed EXCEPT ![w] = 0]
  /\ pc' = [pc EXCEPT ![w] = "checkSync"]
  /\ UNCHANGED <<config, deterministic, state, action, episodeReturn, steps, pending,
                 nextState, nextAction, terminal, loaded, shared, totalReward,
                 returned, stochCalls, detCalls, rewards, trajectory, flushDue,
                 updates, unread, synced>>

\* The condition of line 246, on the counter as it is when the line runs.
SyncDue(counter) == counter % TargetNetworkSyncInterval = 0

\* Line 246: read the shared step counter.
CheckSync(w, record) ==
  /\ pc[w] = "checkSync"
  /\ IF SyncDue(totalSteps)
     THEN /\ pc' = [pc EXCEPT ![w] = "syncAcquire"]
          /\ synced' = IF record THEN synced \cup {totalSteps} ELSE synced
     ELSE /\ pc' = [pc EXCEPT ![w] = "anneal"]
          /\ UNCHANGED synced
  /\ UNCHANGED <<config, deterministic, state, action, episodeReturn, steps, network,
                 pending, pendingIndex, locals, shared, totalReward, returned,
                 stochCalls, detCalls, rewards, trajectory, flushDue, updates,
                 copied, unread, flushLog, handed>>

\* Line 248: wait for the critical region around the target-network copy.
SyncAcquire(w) ==
  /\ pc[w] = "syncAcquire"
  /\ EnterCritical(w)
  /\ pc' = [pc EXCEPT ![w] = "syncWrite"]
  /\ UNCHANGED <<config, deterministic, state, action, episodeReturn, steps, network,
                 pending, pendingIndex, locals, learningNetwork,
                 targetNetwork, totalSteps, anneals, totalReward, returned,
                 history>>

\* Line 249: targetNetwork = learningNetwork, then leave the region.
SyncWrite(w) ==
  /\ pc[w] = "syncWrite"
  /\ targetNetwork' = learningNetwork
  /\ LeaveCritical(w)
  /\ pc' = [pc EXCEPT ![w] = "anneal"]
  /\ UNCHANGED <<config, deterministic, state, action, episodeReturn, steps, network,
                 pending, pendingIndex, locals, learningNetwork, totalSteps,
                 anneals, totalReward, returned, history>>

\* Lines 252-262: policy.Anneal(), then either report the return and go to
\* Reset, or advance to the next state and action and return false.
Anneal(w) ==
  /\ pc[w] = "anneal"
  /\ anneals' = anneals + 1
  /\ IF terminal[w]
     THEN /\ totalReward' = [totalReward EXCEPT ![w] = episodeReturn[w]]
          /\ pc' = [pc EXCEPT ![w] = "reset"]
          /\ UNCHANGED <<state, action, returned, nextState, nextAction,
                         flushDue, updates>>
     ELSE /\ state' = [state EXCEPT ![w] = nextState[w]]
          /\ action' = [action EXCEPT ![w] = nextAction[w]]
          /\ returned' = [returned EXCEPT ![w] = "false"]
          /\ pc' = [pc EXCEPT ![w] = "idle"]
          /\ nextState' = [nextState EXCEPT ![w] = InitialState]
          /\ nextAction' = [nextAction EXCEPT ![w] = 0]
          /\ flushDue' = [flushDue EXCEPT ![w] = FALSE]
          /\ updates' = [updates EXCEPT ![w] = 0]
          /\ UNCHANGED totalReward
  /\ UNCHANGED <<config, deterministic, episodeReturn, steps, network, pending,
                 pendingIndex, terminal, i, totalGradients, loaded,
                 learningNetwork, targetNetwork, totalSteps, critical,
                 stochCalls, detCalls, rewards, trajectory, copied, unread,
                 flushLog, handed, synced>>

\* --------------------------------------------------------- construction
\* WorkerBase's constructor: a configuration with a non-positive StepLimit,
\* UpdateInterval or TargetNetworkSyncInterval is an error.
WorkerBaseAccepts(cfg) ==
  /\ cfg.StepLimit > 0
  /\ cfg.UpdateInterval > 0
  /\ cfg.TargetNetworkSyncInterval > 0

\* OneStepSarsaWorker's constructor (lines 65-71): it hands its arguments
\* to the base constructor and does nothing else.
ConstructorAccepts(cfg) == WorkerBaseAccepts(cfg)

\* The orchestrator constructs the workers of a pool with the same
\* configuration, before any Step call.
Construct ==
  /\ \A w \in Workers : pc[w] = "new"
  /\ IF ConstructorAccepts(config)
     THEN \E S \in Pools :
            /\ pc' = [w \in Workers |-> IF w \in S THEN "idle" ELSE "new"]
            /\ pending' = [w \in Workers |->
                             IF w \in S THEN EmptyBuffer ELSE <<>>]
     ELSE /\ pc' = [w \in Workers |-> "rejected"]
          /\ UNCHANGED pending
  /\ UNCHANGED <<config, deterministic, state, action, episodeReturn, steps,
                 network, pendingIndex, locals, shared, totalReward, returned,
                 history>>

\* The member initialisers of the copy and the move constructor (lines
\* 79-80, 89-90): the base part, its mode included, and the action of
\* worker v become those of the worker w under construction.  An action
\* never assigned is as undetermined in w as it is in v.  What is known of
\* v's episode and buffer is from then on known of w's.
CopyFields(v, w) ==
  /\ deterministic' = [deterministic EXCEPT ![w] = deterministic[v]]
  /\ state' = [state EXCEPT ![w] = state[v]]
  /\ action' = [action EXCEPT ![w] = action[v]]
  /\ episodeReturn' = [episodeReturn EXCEPT ![w] = episodeReturn[v]]
  /\ steps' = [steps EXCEPT ![w] = steps[v]]
  /\ network' = [network EXCEPT ![w] = network[v]]
  /\ pending' = [pending EXCEPT ![w] = pending[v]]
  /\ pendingIndex' = [pendingIndex EXCEPT ![w] = pendingIndex[v]]
  /\ rewards' = [rewards EXCEPT ![w] = rewards[v]]
  /\ trajectory' = [trajectory EXCEPT ![w] = trajectory[v]]
  /\ unread' = [unread EXCEPT ![w] = unread[v]]
  /\ UNCHANGED <<config, locals, shared, totalReward, returned, stochCalls,
                 detCalls, flushDue, updates, copied, flushLog, handed,
                 synced>>

\* OneStepSarsaWorker(const OneStepSarsaWorker&) (lines 78-81): worker w is
\* constructed as a copy of worker v, which is between two calls.
CopyConstruct(v, w) ==
  /\ pc[v] = "idle"
  /\ pc[w] = "new"
  /\ CopyFields(v, w)
  /\ pc' = [pc EXCEPT ![w] = "idle"]

\* OneStepSarsaWorker(OneStepSarsaWorker&&) (lines 88-91): worker w takes
\* over worker v, which is between two calls and is not used again.
MoveConstruct(v, w) ==
  /\ pc[v] = "idle"
  /\ pc[w] = "new"
  /\ CopyFields(v, w)
  /\ pc' = [pc EXCEPT ![w] = "idle", ![v] = "moved"]

\* One atomic step of worker w's Step call.
WorkerNext(w, record) ==
  \/ DetStep(w, record)
  \/ ResetStep(w)
  \/ DetSync(w)
  \/ StochStep(w)
  \/ FlushAcquire(w)
  \/ FlushRead(w, record)
  \/ FlushFault(w)
  \/ Update(w, record)
  \/ UpdateStore(w)
  \/ LocalSync(w)
  \/ CheckSync(w, record)
  \/ SyncAcquire(w)
  \/ SyncWrite(w)
  \/ Anneal(w)

\* A worker is constructed from another one.
FromWorker ==
  \E v, w \in Workers : CopyConstruct(v, w) \/ MoveConstruct(v, w)

Next == FromWorker \/ \E w \in Workers : WorkerNext(w, FALSE)

Spec == Init /\ [][Next]_vars

NextRecorded == FromWorker \/ \E w \in Workers : WorkerNext(w, TRUE)

SpecRecorded == Init /\ [][NextRecorded]_vars

\* A step of a call of worker w that has started.  Every thread keeps being
\* scheduled, so a call that can take a step eventually takes one; nothing
\* obliges a worker to start another call.
CallStep(w) == InStep(w) /\ WorkerNext(w, FALSE)

Fairness == \A w \in Workers : WF_vars(CallStep(w))

FairSpec == Spec /\ Fairness

NextConstruct == Construct \/ Next

SpecConstruct == InitNew /\ [][NextConstruct]_vars

\* ------------------------------------------------------------- properties
Quiescent == \A w \in Workers : Idle(w)

\* C1: the shared step counter equals its initial value (0) plus the number
\* of stochastic-mode Step calls made by all workers, under every
\* interleaving; deterministic-mode calls do not change it.
C1_CounterCountsStochasticCalls == totalSteps = stochCalls

\* Two stochastic workers are inside Step at once and both have incremented.
C1_Witness ==
  /\ totalSteps >= 2
  /\ \E w1, w2 \in Workers :
       /\ w1 # w2
       /\ InStep(w1) /\ InStep(w2)
       /\ ~deterministic[w1] /\ ~deterministic[w2]

\* C2: once every Step call has returned, a target sync has run for every
\* multiple of TargetNetworkSyncInterval the counter has reached.
C2_SyncAtEveryMultiple ==
  Quiescent =>
    \A m \in 1 .. totalSteps : SyncDue(m) => m \in synced

\* C3: no worker writes the target network while another reads or writes it.
C3_TargetNetworkExclusion ==
  \A w1, w2 \in Workers :
    w1 # w2 => ~(pc[w1] = "syncWrite" /\ pc[w2] \in {"flushRead", "syncWrite"})

\* A worker waits for its target read while another is inside the copy.
C3_Witness ==
  \E w1, w2 \in Workers :
    /\ pc[w1] = "syncWrite"
    /\ pc[w2] = "flushAcquire"
    /\ critical = w1

\* C4: pendingIndex never exceeds UpdateInterval, and between Step calls it
\* is below UpdateInterval, so every append writes a slot of the buffer.
C4_PendingIndexBounded ==
  \A w \in Workers :
    /\ pendingIndex[w] <= UpdateInterval
    /\ Idle(w) => pendingIndex[w] < UpdateInterval

\* A full buffer has been flushed and is about to be reset.
C4_Witness ==
  \E w \in Workers :
    /\ pc[w] = "localSync"
    /\ pendingIndex[w] = UpdateInterval
    /\ ~terminal[w]

\* The call in progress ends the episode: it is on its way to Reset.
EndsEpisode(w) ==
  IF deterministic[w] THEN pc[w] = "reset" ELSE InStep(w) /\ terminal[w]

\* C5: the step-within-episode counter never exceeds StepLimit, is below it
\* between calls, and the call that brings it to StepLimit ends the episode.
C5_EpisodeWithinStepLimit ==
  \A w \in Workers :
    /\ steps[w] <= StepLimit
    /\ Idle(w) => steps[w] < StepLimit
    /\ steps[w] = StepLimit => EndsEpisode(w)

\* The gradients of the first n iterations of the running flush.
RECURSIVE GradientSum(_, _)
GradientSum(log, n) ==
  IF n = 0 \/ log = <<>> THEN 0
  ELSE Head(log).gradient + GradientSum(Tail(log), n - 1)

\* C6: a flush processes exactly slots 0 .. pendingIndex-1, in order, and
\* hands the optimizer the clamped sum of those transitions' gradients.
C6_FlushProcessesBufferedOnly ==
  \A w \in Workers :
    pc[w] = "localSync" =>
      /\ Len(flushLog[w]) = pendingIndex[w]
      /\ \A k \in 1 .. Len(flushLog[w]) : flushLog[w][k].slot = k - 1
      /\ handed[w] = Clamp(GradientSum(flushLog[w], pendingIndex[w]))

\* C7: in a flush the bootstrap value of a buffered transition is 0 when
\* the step was terminal and the transition is the last one buffered, and
\* the target network's value at nextAction otherwise; the training target
\* is reward + Discount * bootstrap.
C7_BootstrapOfLastBuffered ==
  \A w \in Workers :
    pc[w] = "localSync" =>
      \A k \in 1 .. Min(pendingIndex[w], Len(flushLog[w])) :
        LET e == flushLog[w][k]
        IN /\ e.bootstrap = IF terminal[w] /\ k = pendingIndex[w]
                            THEN 0 ELSE e.value
           /\ e.target = e.reward + Discount * e.bootstrap

\* C8: episodeReturn is the sum of the rewards sampled since the last
\* Reset, and the totalReward of a call that ends the episode is the sum of
\* all the episode's rewards.
C8_ReturnIsRewardSum ==
  \A w \in Workers :
    /\ episodeReturn[w] = SumSeq(rewards[w])
    /\ pc[w] = "reset" => totalReward[w] = SumSeq(rewards[w])

\* An episode of several steps has ended and its return has been written.
C8_Witness ==
  \E w \in Workers :
    /\ pc[w] = "reset"
    /\ Len(rewards[w]) >= 2
    /\ totalReward[w] >= 3

\* C9: Reset sets the action to the sentinel and the return, the step
\* counter and pendingIndex to 0, and changes neither the local network nor
\* the shared networks and step counter.
C9_ResetEffect ==
  [][\A w \in Workers :
       (pc[w] = "reset" /\ pc'[w] # "reset") =>
         /\ action'[w] = ActionSize
         /\ episodeReturn'[w] = 0
         /\ steps'[w] = 0
         /\ pendingIndex'[w] = 0
         /\ network'[w] = network[w]
         /\ UNCHANGED <<learningNetwork, targetNetwork, totalSteps>>]_vars

\* Reset has run on a worker whose local network differs from the shared one.
C9_Witness ==
  \E w \in Workers :
    /\ pc[w] = "detSync"
    /\ action[w] = ActionSize
    /\ steps[w] = 0 /\ episodeReturn[w] = 0 /\ pendingIndex[w] = 0
    /\ totalReward[w] > 0
    /\ network[w] # learningNetwork

\* C10: a step of a deterministic-mode call changes neither the shared
\* counter, networks and anneal schedule nor the worker's buffer and
\* pendingIndex; its local network changes only by the copy of the shared
\* learning network at a terminal step.
C10_DeterministicFrame ==
  [][\A w \in Workers :
       (deterministic[w] /\ WorkerNext(w, FALSE)) =>
         /\ UNCHANGED <<totalSteps, learningNetwork, targetNetwork, anneals>>
         /\ pending'[w] = pending[w]
         /\ pendingIndex'[w] = pendingIndex[w]
         /\ network'[w] # network[w] =>
              pc[w] = "detSync" /\ network'[w] = learningNetwork]_vars

\* A deterministic call has returned terminated with a refreshed network
\* after stochastic calls have moved the shared state.
C10_Witness ==
  \E w \in Workers :
    /\ deterministic[w]
    /\ Idle(w)
    /\ returned[w] = "true"
    /\ totalSteps > 0
    /\ network[w] = learningNetwork
    /\ learningNetwork # 0

\* The action a deterministic-mode policy picks from the local network's
\* estimate of state s.
GreedyAction(net, s) == CHOOSE a \in Sample(Predict(net, s), TRUE) : TRUE

\* The trajectory of a deterministic-mode worker as a function of nothing but
\* the environment, the local network it holds at each call (read from log)
\* and its own episode fields: state s, action a, step counter st, return ret.
RECURSIVE DetTrajectory(_, _, _, _, _)
DetTrajectory(log, s, a, st, ret) ==
  IF log = <<>> THEN <<>>
  ELSE LET net == Head(log).network
           act == IF a = ActionSize THEN GreedyAction(net, s) ELSE a
           ns == EnvNextState(s, act)
           reward == EnvReward(s, act)
           term == IsTerminal(ns) \/ st + 1 >= StepLimit
           entry == [network |-> net, state |-> s, action |-> act,
                     reward |-> reward, terminated |-> term,
                     totalReward |-> IF term THEN ret + reward ELSE 0]
       IN <<entry>> \o
          (IF term
           THEN DetTrajectory(Tail(log), InitialState, ActionSize, 0, 0)
           ELSE DetTrajectory(Tail(log), ns, GreedyAction(net, ns), st + 1,
                              ret + reward))

\* C11: the sequence of (state, action, reward, terminated, totalReward) a
\* deterministic-mode worker produces is a function of its start state, the
\* local network it holds at each call and the environment's responses, so
\* two such workers given the same of these produce the same sequence,
\* whatever the other workers do to the shared counter and networks.
C11_DeterministicTrajectory ==
  \A w \in Workers :
    deterministic[w] =>
      trajectory[w] = DetTrajectory(trajectory[w], InitialState, ActionSize, 0, 0)

\* Worker w enters a Step call in this step.
CallStarts(w) ==
  /\ Idle(w)
  /\ pc'[w] \notin {"idle", "moved"} \/ trajectory'[w] # trajectory[w]

\* Worker w's Step call returns in this step.
CallReturns(w) ==
  /\ pc[w] # "new"
  /\ pc'[w] = "idle"
  /\ pc[w] # "idle" \/ trajectory'[w] # trajectory[w]

\* C13: at the entry of every Step call the action is the sentinel exactly
\* when the step-within-episode counter is 0; after a call that returns
\* not-terminated it is the valid next action selected in that call from
\* the estimate at the new state, and after a call that returns terminated
\* it is the sentinel.
C13_SentinelAtEpisodeStart ==
  [][\A w \in Workers :
       /\ CallStarts(w) => (action[w] = ActionSize <=> steps[w] = 0)
       /\ (CallReturns(w) /\ returned'[w] = "false") =>
            /\ action'[w] \in Actions
            /\ action'[w] \in Sample(Predict(network[w], state'[w]),
                                     deterministic[w])
       /\ (CallReturns(w) /\ returned'[w] = "true") =>
            action'[w] = ActionSize]_vars

\* C14: the local network of a constructed worker changes only by a copy
\* of the shared learning network, at the end of a flush or at a
\* deterministic terminal step; the
\* shared learning network changes only by the optimizer update of a flush;
\* the shared target network changes only by a copy of the shared learning
\* network inside the target sync.
C14_NetworkFlowsSharedToLocal ==
  [][/\ \A w \in Workers :
          (pc[w] # "new" /\ network'[w] # network[w]) =>
            /\ pc[w] \in {"localSync", "detSync"}
            /\ network'[w] = learningNetwork
     /\ learningNetwork' # learningNetwork =>
          \E w \in Workers :
            /\ pc[w] = "updateStore" /\ pc'[w] = "localSync"
            /\ learningNetwork' =
                 UpdaterUpdate(loaded[w], StepSize, totalGradients[w])
     /\ targetNetwork' # targetNetwork =>
          /\ \E w \in Workers : pc[w] = "syncWrite" /\ pc'[w] = "anneal"
          /\ targetNetwork' = learningNetwork]_vars

\* A worker has just refreshed its local network from an updated learning
\* network while another worker's local network is stale.
C14_Witness ==
  \E w1, w2 \in Workers :
    /\ pc[w1] = "checkSync"
    /\ network[w1] = learningNetwork
    /\ learningNetwork # 0
    /\ network[w2] # learningNetwork
    /\ targetNetwork # learningNetwork

\* C15: a stochastic-mode call runs the flush exactly when the step is
\* terminal or pendingIndex equals UpdateInterval after the append; a
\* flushing call applies exactly one optimizer update, and no step of a
\* non-flushing call changes the shared learning network or the worker's
\* local network.
C15_FlushExactlyWhenDue ==
  /\ [](\A w \in Workers :
          ~deterministic[w] =>
            /\ pc[w] \in {"flushAcquire", "flushRead", "update", "updateStore"}
                 => flushDue[w] /\ updates[w] = 0
            /\ pc[w] \in {"localSync", "checkSync", "syncAcquire", "syncWrite",
                          "anneal", "reset", "thrown"}
                 => updates[w] = IF flushDue[w] THEN 1 ELSE 0)
  /\ [][\A w \in Workers :
          (/\ ~deterministic[w]
           /\ ~flushDue[w] /\ ~flushDue'[w]
           /\ WorkerNext(w, FALSE)) =>
            /\ learningNetwork' = learningNetwork
            /\ network'[w] = network[w]]_vars

\* The stochastic workers inside a call that has not yet reached the return
\* of its Anneal.
BeforeAnneal ==
  {w \in Workers : ~deterministic[w] /\ InStep(w) /\ pc[w] # "reset"}

\* C16: every stochastic-mode call invokes Anneal exactly once, after its
\* flush and target sync if any, and deterministic-mode calls never do: the
\* number of Anneal invocations is the number of stochastic-mode calls less
\* those still on their way to Anneal, each invocation is the last step
\* before the call's Reset or return, and once every call has returned the
\* two numbers are equal.
C16_AnnealOncePerStochasticCall ==
  /\ [](anneals + Cardinality(BeforeAnneal) = stochCalls)
  /\ [][anneals' # anneals =>
          /\ anneals' = anneals + 1
          /\ \E w \in Workers :
               /\ ~deterministic[w]
               /\ pc[w] = "anneal" /\ pc'[w] \in {"idle", "reset"}]_vars
  /\ [][\A w \in Workers :
          (~deterministic[w] /\ pc[w] = "reset") =>
            pc'[w] \in {"reset", "idle"}]_vars

\* C17: a call that returned terminated, in either mode, copied the shared
\* learning network into the local network while it ran (at the end of the
\* terminal flush, or after Reset in deterministic mode), and the next
\* episode starts with that copy.
C17_TerminalCallRefreshes ==
  /\ [](\A w \in Workers :
          (Idle(w) /\ returned[w] = "true") =>
            /\ copied[w] # <<>>
            /\ network[w] = copied[w][1])
  /\ [][\A w \in Workers :
          (copied'[w] # copied[w] /\ copied'[w] # <<>>) =>
            /\ pc[w] \in {"localSync", "detSync"}
            /\ copied'[w] = <<learningNetwork>>
            /\ network'[w] = learningNetwork]_vars

\* A stochastic call has returned terminated with the copy of its flush,
\* and the shared learning network has moved on since.
C17_Witness ==
  \E w \in Workers :
    /\ ~deterministic[w]
    /\ Idle(w) /\ returned[w] = "true"
    /\ copied[w] = <<network[w]>>
    /\ network[w] # learningNetwork

\* C18: no buffered transition is lost: an append never writes a slot whose
\* transition no flush has read yet, pendingIndex goes back to 0 only when
\* every appended transition has been read, and when Reset runs in
\* stochastic mode pendingIndex is already 0.
C18_NoTransitionLost ==
  /\ [][\A w \in Workers :
          /\ pendingIndex'[w] = pendingIndex[w] + 1 =>
               pendingIndex[w] \notin unread[w]
          /\ (pendingIndex[w] > 0 /\ pendingIndex'[w] = 0) =>
               unread[w] = {}]_vars
  /\ [](\A w \in Workers :
          (~deterministic[w] /\ pc[w] = "reset") =>
            pendingIndex[w] = 0 /\ unread[w] = {})

\* A flush has read a full buffer and is about to empty it, while another
\* worker holds one transition for its next flush.
C18_Witness ==
  \E w1, w2 \in Workers :
    /\ pc[w1] = "localSync"
    /\ pendingIndex[w1] = UpdateInterval
    /\ unread[w1] = {}
    /\ Idle(w2)
    /\ unread[w2] = {0}

\* C19: the pool cannot deadlock on the critical region: the lock is held
\* exactly by a worker inside its one target read or its one target copy,
\* the holder's next step gives it back, and under fair scheduling every
\* call that has started returns.
C19_EveryCallReturns ==
  /\ [](\A w \in Workers : critical = w <=> pc[w] \in {"flushRead", "syncWrite"})
  /\ [][\A w \in Workers :
          (critical = w /\ pc'[w] # pc[w]) => critical' = NoWorker]_vars
  /\ \A w \in Workers : InStep(w) ~> Idle(w)

=============================================================================
